---- MODULE Spec2Model ----
(***************************************************************************)
(* Model of gift_upgrader.py: the periodic scheduler loop of main(), the   *)
(* reactive _fast_trigger handler, the asyncio.Lock SCAN_LOCK they share,  *)
(* and Upgrader.scan_and_upgrade_cycle with get_balance, resolve_peer,     *)
(* iter_saved_gifts and try_upgrade_one.                                   *)
(*                                                                         *)
(* One action is one stretch of code between two suspension points of the  *)
(* event loop (an await of a remote call, of the lock, or of a sleep).     *)
(* A remote call is two steps: the code issues it and suspends (the pc     *)
(* names the call in flight), then the response action resumes the code    *)
(* with an outcome drawn from the outcomes the remote layer can produce.   *)
(*                                                                         *)
(* Local file writes (audit.jsonl, upgraded_state.json) succeed in Spec.   *)
(* Counters that only feed the log or the metrics endpoint and that no     *)
(* decision reads (the error, scanned, upgradable, attempt and success     *)
(* counters) are left out.                                                 *)
(***************************************************************************)
EXTENDS Integers, Sequences, FiniteSets, TLC

\* ------------------------------------------------------------------ bounds
MaxGifts == 3       \* largest catalog a peer holds
MaxBalance == 2     \* largest balance the service reports
MaxNeed == 2        \* largest upgrade cost of a gift
MaxWait == 1        \* largest FloodWaitError.seconds
MaxCycles == 3      \* scan cycles started in one run
MaxDryCycles == 4   \* scan cycles started in one run with DRY_RUN set
NumTriggers == 2    \* _fast_trigger handler tasks alive at once

\* ------------------------------------------------------- program constants
PAGE_LIMIT == 2
PEERS == <<"chan">>

Main == 0
Triggers == 1..NumTriggers
Procs == {Main} \cup Triggers

VARIABLES
    DRY_RUN,        \* configuration flag, fixed at start-up
    State,          \* STATE (a TLA+ keyword): keys of the in-memory dedup map
    SCAN_LOCK,      \* asyncio.Lock: locked flag, waiter queue, woken waiters
    STOP,           \* asyncio.Event set by the signal handler
    pc,             \* position of main() and of each _fast_trigger task
    cy,             \* locals of the scan cycle each task is running
    MET_CHECKS,     \* Counter tg_gift_checks_total
    MET_FLOODWAIT,  \* Counter tg_gift_floodwait_seconds_total
    owed,           \* wait asked for by the latest response and not yet slept
    succeeded,      \* history: the pairs try_upgrade_one returned ok = True for
    disk            \* the files upgraded_state.json (db) and its .tmp sibling

vars == <<DRY_RUN, State, SCAN_LOCK, STOP, pc, cy, MET_CHECKS,
          MET_FLOODWAIT, owed, succeeded, disk>>

Max(a, b) == IF a >= b THEN a ELSE b
Min(a, b) == IF a <= b THEN a ELSE b

\* ------------------------------------------------------------- exceptions
\* Outcomes of one remote call.  "type" is the TypeError of a request that
\* carries a parameter the TL layer does not know; "flood" is FloodWaitError,
\* "rpc" any other RPCError, "other" any other Exception.
Outcomes == {"ok", "type", "rpc", "flood", "other"}

\* telethon.errors: FloodWaitError is a subclass of RPCError, so an
\* `except RPCError` clause also catches a FloodWaitError.
IsRPCError(o) == o \in {"rpc", "flood"}

\* The wait the latest response asks for: the seconds of a FloodWaitError.
Signalled(o, w) == IF o = "flood" THEN w ELSE 0

\* ------------------------------------------------------------ pc values
CycleAwait == {"c_balance1", "c_balance2", "c_resolve", "c_page",
               "c_prepaid1", "c_prepaid2", "c_form1", "c_form2", "c_send",
               "c_report"}
MutatingAwait == {"c_prepaid1", "c_prepaid2", "c_form1", "c_form2", "c_send"}
ItemAwait == MutatingAwait
CycleStates == CycleAwait \cup {"c_peer", "c_iter", "c_endpeer"}
MainStates == {"m_start", "m_loop", "m_waitlock", "m_floodsleep", "m_delay", "m_exit"}
TriggerStates == {"t_idle", "t_done", "t_waitlock"}

InCycle(p) == pc[p] \in CycleStates

\* ------------------------------------------------------- dedup state store
NoGift == [id |-> 0, msg_id |-> 0, saved_id |-> 0, upgrade_stars |-> 0,
           prepaid_upgrade_hash |-> FALSE, can_upgrade |-> FALSE]

\* _gift_keys: slot-based key when saved_id is set, else message-based key.
\* Only called on a gift that has one of the two.
_gift_keys(saved) ==
    IF saved.saved_id # 0 THEN <<"chat_saved", saved.saved_id>>
    ELSE <<"user_msg", saved.msg_id>>

HasKey(saved) == saved.saved_id # 0 \/ saved.msg_id # 0

state_key(peer_id, gift_key) == <<peer_id, gift_key>>

\* Mutant: the dedup lookup never finds a record.
already_upgradedNever(peer_id, gift_key) == FALSE

already_upgraded(peer_id, gift_key) == state_key(peer_id, gift_key) \in State

\* mark_upgraded, line 115: STATE[key] = now.  Line 116, save_state(STATE),
\* is save_state below.
mark_upgraded(S, peer_id, gift_key) == S \cup {state_key(peer_id, gift_key)}

\* ------------------------------------------------------- state file on disk
\* A file is absent or holds a text.  The text of upgraded_state.json is the
\* list of the members of one JSON object, here their keys (no decision
\* reads the timestamps).
NoFile == [exists |-> FALSE, text |-> <<>>]

File(text) == [exists |-> TRUE, text |-> text]

\* json.dumps of the dict: its members, one after the other.
RECURSIVE dumps(_)
dumps(S) ==
    IF S = {} THEN <<>>
    ELSE LET k == CHOOSE x \in S : TRUE
         IN  <<k>> \o dumps(S \ {k})

\* json.loads of the text: the dict with these members.
loads(text) == {text[i] : i \in 1..Len(text)}

\* load_state, lines 93-99: {} when the file does not exist.
load_state(D) == IF D.db.exists THEN loads(D.db.text) ELSE {}

\* Mutant: the temporary file is written and never renamed.
save_stateTmpOnly(D, S) == [D EXCEPT !.tmp = File(dumps(S))]

\* save_state, lines 101-104: write the .tmp file, then rename it over the
\* state file.
save_state(D, S) == [db |-> File(dumps(S)), tmp |-> NoFile]

\* ------------------------------------------------------------ cycle locals
InitLocals ==
    [balance |-> 0, fetched |-> 0, total_spent |-> 0,
     pi |-> 0, catalog |-> 0, offset |-> <<>>, next_offset |-> <<>>, gifts |-> <<>>,
     yielded |-> <<>>, requests |-> 0,
     saved |-> NoGift, msg |-> "none", audit |-> <<>>, fw |-> 0]

Peer(p) == PEERS[cy[p].pi]

\* ------------------------------------------------------------ asyncio.Lock
\* Mutant: the handler's check never sees the lock held.
lockedNever(L) == FALSE

\* Lock.locked()
locked(L) == L.locked

\* Mutant: acquire looks at the waiter queue only, not at the flag.
CanAcquireIgnoringFlag(L) == L.waiters = <<>>

\* Lock.acquire takes the lock at once only when it is free and no waiter
\* is queued (no waiter is ever cancelled here).
CanAcquire(L) == ~L.locked /\ L.waiters = <<>>

Acquired(L) == [L EXCEPT !.locked = TRUE]

Enqueued(L, p) == [L EXCEPT !.waiters = Append(@, p)]

\* A woken waiter resumes inside acquire(): it leaves the queue and sets
\* the flag.
Resumed(L, p) ==
    [locked |-> TRUE,
     waiters |-> SelectSeq(L.waiters, LAMBDA q : q # p),
     woken |-> L.woken \ {p}]

\* Lock.release clears the flag and wakes the first waiter, which runs
\* later, when the event loop schedules it.
Released(L) ==
    [L EXCEPT !.locked = FALSE,
              !.woken = IF L.waiters # <<>> THEN @ \cup {Head(L.waiters)}
                        ELSE @]

\* ------------------------------------------------- remote catalog, one page
\* payments.getSavedStarGifts(peer, offset, limit) over a catalog of n gifts
\* numbered 1..n: the gifts after the cursor, at most `limit` of them, and
\* a cursor unless this page is the last.  The empty string is <<>>.
GetSavedStarGifts(n, offset, limit) ==
    LET start == IF offset = <<>> THEN 0 ELSE offset[1]
        last == Min(start + limit, n)
    IN  [gifts |-> [i \in 1..(last - start) |-> start + i],
         next_offset |-> IF last < n THEN <<last>> ELSE <<>>]

\* Mutant: the loop breaks after the first page whatever the cursor.
IterStopsAfterFirstPage(next_offset) == FALSE

\* iter_saved_gifts, line 243: `if not offset: break`.
IterContinues(next_offset) == next_offset # <<>>

\* ------------------------------------------------------- try_upgrade_one
\* What the synchronous code of try_upgrade_one does up to its next
\* suspension: either it returns (ok, msg, spent), having appended the
\* audit events ev and, when mark is set, called mark_upgraded; or it
\* issues the remote call `next` and suspends.
Ret(ok, msg, spent, mark, ev) ==
    [next |-> "c_iter", ok |-> ok, msg |-> msg, spent |-> spent,
     mark |-> mark, ev |-> ev]

Call(s, ev) ==
    [next |-> s, ok |-> FALSE, msg |-> "pending", spent |-> 0,
     mark |-> FALSE, ev |-> ev]

\* An exception that leaves try_upgrade_one: the cycle's handlers (lines
\* 407-416) log it and go on with the next gift.  Only exceptions that are
\* not RPCError get here, try_upgrade_one catches RPCError itself.
Raised(ev) == Ret(FALSE, "exc", 0, FALSE, ev)

\* Mutant: the balance check never refuses.
NoBalanceNever(stars_balance, need) == FALSE

\* Line 346: the balance check of the paid path.
NoBalance(stars_balance, need) == stars_balance < need

\* Mutant: the paid path without its DRY_RUN branch.
PaidPathIgnoresDry(need, stars_balance, dry, ev) ==
    IF need > 0 THEN
        IF NoBalance(stars_balance, need)
        THEN Ret(FALSE, "no_balance", 0, FALSE, ev)
        ELSE Call("c_form1", ev)
    ELSE Ret(FALSE, "uncertain", 0, FALSE, ev)

\* Lines 345-367 up to the first remote call of the paid path.
PaidPath(need, stars_balance, dry, ev) ==
    IF need > 0 THEN
        IF NoBalance(stars_balance, need)
        THEN Ret(FALSE, "no_balance", 0, FALSE, ev)
        ELSE IF dry
        THEN Ret(TRUE, "dry_paid", 0, TRUE, ev \o <<"dry_upgrade_paid">>)
        ELSE Call("c_form1", ev)
    ELSE Ret(FALSE, "uncertain", 0, FALSE, ev)

\* Lines 314-343 up to the first remote call.
TryUpgradeEntry(saved, peer, stars_balance, dry) ==
    LET need == saved.upgrade_stars
        prepaid == saved.prepaid_upgrade_hash
        can_up == saved.can_upgrade
    IN  IF ~HasKey(saved) THEN Raised(<<>>)
        ELSE IF already_upgraded(peer, _gift_keys(saved))
        THEN Ret(FALSE, "skip_done", 0, FALSE, <<"consider">>)
        ELSE IF ~can_up /\ ~prepaid /\ need <= 0
        THEN Ret(FALSE, "skip_not_upgradable", 0, FALSE, <<"consider">>)
        ELSE IF prepaid
        THEN IF dry
             THEN Ret(TRUE, "dry_prepaid", 0, TRUE,
                      <<"consider", "dry_upgrade_prepaid">>)
             ELSE Call("c_prepaid1", <<"consider">>)
        ELSE PaidPath(need, stars_balance, dry, <<"consider">>)

\* Mutant: a prepaid success is reported with a cost.
PrepaidOkSpends == Ret(TRUE, "prepaid_ok", 1, TRUE, <<"upgrade_prepaid_ok">>)

\* Lines 337-340.
PrepaidOk == Ret(TRUE, "prepaid_ok", 0, TRUE, <<"upgrade_prepaid_ok">>)

\* Lines 358-361.
PaidOk(need) == Ret(TRUE, "paid_ok", need, TRUE, <<"upgrade_paid_ok">>)

\* Mutant: the error branch of the paid path also calls mark_upgraded.
PaidErrorMarks == Ret(FALSE, "paid_err", 0, TRUE, <<"upgrade_paid_err">>)

\* Lines 362-365.
PaidError == Ret(FALSE, "paid_err", 0, FALSE, <<"upgrade_paid_err">>)

\* Mutant: the cycle adds to total_spent and leaves the balance alone.
AfterItemKeepsBalance(c, d) ==
    [c EXCEPT !.msg = d.msg,
              !.audit = @ \o d.ev,
              !.total_spent = IF d.ok THEN @ + d.spent ELSE @]

\* Lines 400-405: the cycle's bookkeeping on the returned (ok, msg, spent).
AfterItem(c, d) ==
    [c EXCEPT !.msg = d.msg,
              !.audit = @ \o d.ev,
              !.total_spent = IF d.ok THEN @ + d.spent ELSE @,
              !.balance = IF d.ok /\ d.spent > 0 THEN Max(0, @ - d.spent)
                          ELSE @]

\* One step of try_upgrade_one on the locals c of task p, with outcome d.
Apply(p, c, d) ==
    /\ cy' = [cy EXCEPT ![p] = AfterItem(c, d)]
    /\ pc' = [pc EXCEPT ![p] = d.next]
    /\ State' = IF d.mark
                THEN mark_upgraded(State, PEERS[c.pi], _gift_keys(c.saved))
                ELSE State
    /\ disk' = IF d.mark THEN save_state(disk, State') ELSE disk
    /\ succeeded' = IF d.ok
                    THEN succeeded
                         \cup {state_key(PEERS[c.pi], _gift_keys(c.saved))}
                    ELSE succeeded

\* ------------------------------------------------------------------- Init
Init ==
    /\ DRY_RUN \in BOOLEAN
    /\ State = {}
    /\ SCAN_LOCK = [locked |-> FALSE, waiters |-> <<>>, woken |-> {}]
    /\ STOP = FALSE
    /\ pc = [p \in Procs |-> IF p = Main THEN "m_start" ELSE "t_idle"]
    /\ cy = [p \in Procs |-> InitLocals]
    /\ MET_CHECKS = 0
    /\ MET_FLOODWAIT = 0
    /\ owed = 0
    /\ succeeded = {}
    /\ disk = [db |-> NoFile, tmp |-> NoFile]

Running == pc[Main] # "m_exit"

\* main() registers the handler and enters its loop without suspending
\* (lines 489-504): events are dispatched only after main() has first
\* reached line 502.
Started == pc[Main] # "m_start"

AtLoop == pc[Main] \in {"m_start", "m_loop"}

\* ----------------------------------------------- entering and leaving a cycle
\* scan_and_upgrade_cycle up to its first await (lines 370-375, 195).
StartCycle(p) ==
    /\ MET_CHECKS' = MET_CHECKS + 1
    /\ cy' = [cy EXCEPT ![p] = InitLocals]
    /\ pc' = [pc EXCEPT ![p] = "c_balance1"]

\* The cycle of task p ends, normally (o = "ok") or by the exception o, a
\* FloodWaitError carrying w seconds.  `async with` releases the lock.  In
\* main() lines 506-512 handle the exception, in _fast_trigger lines 498-499.
EndCycle(p, o, w) ==
    /\ SCAN_LOCK' = Released(SCAN_LOCK)
    /\ cy' = [cy EXCEPT ![p] =
                 [InitLocals EXCEPT !.fw = IF p = Main /\ o = "flood" THEN w
                                           ELSE 0]]
    /\ pc' = [pc EXCEPT ![p] =
                 IF p # Main THEN "t_idle"
                 ELSE IF o = "flood" THEN "m_floodsleep" ELSE "m_delay"]
    /\ MET_FLOODWAIT' = IF p = Main /\ o = "flood" THEN MET_FLOODWAIT + w
                        ELSE MET_FLOODWAIT

\* -------------------------------------------------------------- main()
\* Line 502, loop condition false.
MainExit ==
    /\ Running /\ AtLoop /\ STOP
    /\ pc' = [pc EXCEPT ![Main] = "m_exit"]
    /\ UNCHANGED <<succeeded, disk, DRY_RUN, State, SCAN_LOCK, STOP, cy, MET_CHECKS,
                   MET_FLOODWAIT, owed>>

\* Lines 502-505: `async with SCAN_LOCK` takes the lock or queues for it.
\* At most n cycles are started in one run.
MainAcquireWithin(n) ==
    /\ Running /\ AtLoop /\ ~STOP
    /\ IF CanAcquire(SCAN_LOCK)
       THEN /\ MET_CHECKS < n
            /\ SCAN_LOCK' = Acquired(SCAN_LOCK)
            /\ StartCycle(Main)
       ELSE /\ SCAN_LOCK' = Enqueued(SCAN_LOCK, Main)
            /\ pc' = [pc EXCEPT ![Main] = "m_waitlock"]
            /\ UNCHANGED <<cy, MET_CHECKS>>
    /\ UNCHANGED <<succeeded, disk, DRY_RUN, State, STOP, MET_FLOODWAIT, owed>>

MainAcquire == MainAcquireWithin(MaxCycles)

\* A task queued on the lock and woken by release() resumes and starts its
\* cycle (main() line 504, _fast_trigger line 496).
LockGrantedWithin(p, n) ==
    /\ Running /\ pc[p] \in {"m_waitlock", "t_waitlock"}
    /\ p \in SCAN_LOCK.woken
    /\ MET_CHECKS < n
    /\ SCAN_LOCK' = Resumed(SCAN_LOCK, p)
    /\ StartCycle(p)
    /\ UNCHANGED <<succeeded, disk, DRY_RUN, State, STOP, MET_FLOODWAIT, owed>>

LockGranted(p) == LockGrantedWithin(p, MaxCycles)

\* Line 509: asyncio.sleep(fw.seconds + 1).
MainFloodSleep ==
    /\ Running /\ pc[Main] = "m_floodsleep"
    /\ owed' = Max(0, owed - (cy[Main].fw + 1))
    /\ cy' = [cy EXCEPT ![Main].fw = 0]
    /\ pc' = [pc EXCEPT ![Main] = "m_delay"]
    /\ UNCHANGED <<succeeded, disk, DRY_RUN, State, SCAN_LOCK, STOP, MET_CHECKS,
                   MET_FLOODWAIT>>

\* Line 514, _delay_with_jitter: the wait ends by timeout or by STOP.
\* wait_for suspends main() for at least one turn of the event loop, and a
\* waiter that release() woke at line 505 is scheduled before anything
\* main() schedules afterwards: it has resumed when the wait returns.
MainDelay ==
    /\ Running /\ pc[Main] = "m_delay"
    /\ SCAN_LOCK.woken = {}
    /\ pc' = [pc EXCEPT ![Main] = "m_loop"]
    /\ UNCHANGED <<succeeded, disk, DRY_RUN, State, SCAN_LOCK, STOP, cy, MET_CHECKS,
                   MET_FLOODWAIT, owed>>

\* _setup_signals.handler: STOP.set().
Signal ==
    /\ Running /\ ~STOP
    /\ STOP' = TRUE
    /\ UNCHANGED <<succeeded, disk, DRY_RUN, State, SCAN_LOCK, pc, cy, MET_CHECKS,
                   MET_FLOODWAIT, owed>>

\* ------------------------------------------------------- _fast_trigger
\* A handler slot with no live task: never used, or its last run returned at
\* line 493.
Free(t) == pc[t] \in {"t_idle", "t_done"}

\* Lines 491-497: a NewMessage event of a watched chat runs the handler up
\* to its first suspension.  Handler tasks are interchangeable, the event
\* takes the lowest free slot.
FastTriggerWithin(t, n) ==
    /\ Running /\ Started /\ Free(t)
    /\ \A u \in Triggers : u < t => ~Free(u)
    /\ IF locked(SCAN_LOCK)
       THEN /\ pc' = [pc EXCEPT ![t] = "t_done"]
            /\ UNCHANGED <<SCAN_LOCK, cy, MET_CHECKS>>
       ELSE /\ MET_CHECKS < n
            /\ IF CanAcquire(SCAN_LOCK)
               THEN /\ SCAN_LOCK' = Acquired(SCAN_LOCK)
                    /\ StartCycle(t)
               ELSE /\ SCAN_LOCK' = Enqueued(SCAN_LOCK, t)
                    /\ pc' = [pc EXCEPT ![t] = "t_waitlock"]
                    /\ UNCHANGED <<cy, MET_CHECKS>>
    /\ UNCHANGED <<succeeded, disk, DRY_RUN, State, STOP, MET_FLOODWAIT, owed>>

FastTrigger(t) == FastTriggerWithin(t, MaxCycles)

\* ------------------------------------------------ scan_and_upgrade_cycle
Frame == UNCHANGED <<DRY_RUN, STOP>>

\* Keeps the lock, the counters and the dedup map.
Inside ==
    UNCHANGED <<SCAN_LOCK, MET_CHECKS, MET_FLOODWAIT, State, succeeded, disk>>

\* Mutant: a failed balance query keeps the amount b.
BalanceOutcomeKeeps(o, b, first) ==
    IF first /\ o = "type" THEN [next |-> "c_balance2", balance |-> 0]
    ELSE IF o = "ok" \/ first \/ IsRPCError(o)
    THEN [next |-> "c_peer", balance |-> b]
    ELSE [next |-> "exc", balance |-> 0]

\* get_balance (lines 194-214) under lines 374-380: what the cycle does on
\* outcome o of a balance call that would report b; first is the call of
\* line 195, otherwise the fallback of line 199.  A TypeError of the first
\* call leads to the fallback; every other exception of the first call is
\* caught in get_balance and gives 0.  The fallback is awaited inside the
\* `except TypeError` clause, so no sibling clause of get_balance catches
\* what it raises: the cycle catches RPCError (lines 377-380) and continues
\* with 0, anything else leaves the cycle.
BalanceOutcome(o, b, first) ==
    IF first /\ o = "type" THEN [next |-> "c_balance2", balance |-> 0]
    ELSE IF o = "ok" THEN [next |-> "c_peer", balance |-> b]
    ELSE IF first \/ IsRPCError(o) THEN [next |-> "c_peer", balance |-> 0]
    ELSE [next |-> "exc", balance |-> 0]

\* Line 195: response to GetStarsStatusRequest(peer=...).
BalanceResp1(p) ==
    /\ Running /\ pc[p] = "c_balance1"
    /\ \E o \in Outcomes, w \in 1..MaxWait, b \in 0..MaxBalance :
        LET r == BalanceOutcome(o, b, TRUE)
        IN  /\ owed' = Signalled(o, w)
            /\ pc' = [pc EXCEPT ![p] = r.next]
            /\ cy' = IF r.next = "c_balance2" THEN cy
                     ELSE [cy EXCEPT ![p].balance = r.balance,
                                     ![p].fetched = r.balance,
                                     ![p].pi = 1]
    /\ Inside /\ Frame

\* Line 199: response to the fallback GetStarsStatusRequest().
BalanceResp2(p) ==
    /\ Running /\ pc[p] = "c_balance2"
    /\ \E o \in Outcomes, w \in 1..MaxWait, b \in 0..MaxBalance :
        LET r == BalanceOutcome(o, b, FALSE)
        IN  /\ owed' = Signalled(o, w)
            /\ IF r.next = "c_peer"
               THEN /\ pc' = [pc EXCEPT ![p] = "c_peer"]
                    /\ cy' = [cy EXCEPT ![p].balance = r.balance,
                                        ![p].fetched = r.balance,
                                        ![p].pi = 1]
                    /\ Inside
               ELSE /\ EndCycle(p, o, w)
                    /\ UNCHANGED <<MET_CHECKS, State, succeeded, disk>>
    /\ Frame

\* iter_saved_gifts, lines 230-237: a fresh cursor and the first request,
\* on a peer whose catalog holds n gifts during this iteration.
StartIter(c, n) ==
    [c EXCEPT !.catalog = n, !.offset = <<>>, !.next_offset = <<>>,
              !.gifts = <<>>, !.yielded = <<>>, !.requests = 1]

\* Lines 386-396 and 422-430: the head of `for p in PEERS`.  "me" resolves
\* without a remote call; after the last peer the report is sent.
PeerStart(p) ==
    /\ Running /\ pc[p] = "c_peer"
    /\ IF cy[p].pi > Len(PEERS)
       THEN /\ pc' = [pc EXCEPT ![p] = "c_report"]
            /\ cy' = cy
       ELSE IF Peer(p) = "me"
       THEN /\ pc' = [pc EXCEPT ![p] = "c_page"]
            /\ \E n \in 0..MaxGifts : cy' = [cy EXCEPT ![p] = StartIter(@, n)]
       ELSE /\ pc' = [pc EXCEPT ![p] = "c_resolve"]
            /\ cy' = cy
    /\ UNCHANGED owed /\ Inside /\ Frame

\* Lines 387-392: response to get_input_entity; any exception skips the peer.
ResolveResp(p) ==
    /\ Running /\ pc[p] = "c_resolve"
    /\ \E o \in Outcomes \ {"type"}, w \in 1..MaxWait, n \in 0..MaxGifts :
        /\ owed' = Signalled(o, w)
        /\ IF o = "ok"
           THEN /\ pc' = [pc EXCEPT ![p] = "c_page"]
                /\ cy' = [cy EXCEPT ![p] = StartIter(@, n)]
           ELSE /\ pc' = [pc EXCEPT ![p] = "c_peer"]
                /\ cy' = [cy EXCEPT ![p].pi = @ + 1]
    /\ Inside /\ Frame

\* Lines 232-238: response to GetSavedStarGiftsRequest.  The request is
\* awaited by the `async for` of line 396, outside the try of line 399:
\* what it raises leaves the cycle.
PageResp(p) ==
    /\ Running /\ pc[p] = "c_page"
    /\ \E o \in Outcomes \ {"type"}, w \in 1..MaxWait :
        /\ owed' = Signalled(o, w)
        /\ IF o = "ok"
           THEN LET res == GetSavedStarGifts(cy[p].catalog, cy[p].offset,
                                             PAGE_LIMIT)
                IN  /\ cy' = [cy EXCEPT ![p].gifts = res.gifts,
                                        ![p].next_offset = res.next_offset]
                    /\ pc' = [pc EXCEPT ![p] = "c_iter"]
                    /\ Inside
           ELSE /\ EndCycle(p, o, w)
                /\ UNCHANGED <<MET_CHECKS, State, succeeded, disk>>
    /\ Frame

\* The saved gift number i of a peer as the service returns it: message
\* addressed for "me", slot addressed for a channel, or (has_id = FALSE)
\* carrying neither id.
SavedGift(peer, i, has_id, need, prepaid, can_up) ==
    [id |-> i,
     msg_id |-> IF has_id /\ peer = "me" THEN i ELSE 0,
     saved_id |-> IF has_id /\ peer # "me" THEN i ELSE 0,
     upgrade_stars |-> need,
     prepaid_upgrade_hash |-> prepaid,
     can_upgrade |-> can_up]

\* The gifts the service returns: every cost, with and without a prepaid
\* token; the can_upgrade hint varies where the code reads it (no token and
\* no cost), and one kind carries neither msg_id nor saved_id.
GiftKinds ==
    {[has_id |-> TRUE, need |-> n, prepaid |-> pp, can_up |-> TRUE] :
        n \in 0..MaxNeed, pp \in BOOLEAN}
    \cup {[has_id |-> TRUE, need |-> 0, prepaid |-> FALSE, can_up |-> FALSE],
          [has_id |-> FALSE, need |-> 0, prepaid |-> FALSE, can_up |-> FALSE]}

\* Lines 239-240 and 396-406: the generator yields the next gift of the
\* page and try_upgrade_one runs on it up to its first remote call.
Item(p) ==
    /\ Running /\ pc[p] = "c_iter" /\ cy[p].gifts # <<>>
    /\ \E k \in GiftKinds :
        LET saved == SavedGift(Peer(p), Head(cy[p].gifts), k.has_id, k.need,
                               k.prepaid, k.can_up)
            c == [cy[p] EXCEPT !.saved = saved,
                               !.gifts = Tail(@),
                               !.yielded = Append(@, saved.id),
                               !.audit = <<>>]
        IN  Apply(p, c, TryUpgradeEntry(saved, Peer(p), c.balance, DRY_RUN))
    /\ UNCHANGED <<owed, SCAN_LOCK, MET_CHECKS, MET_FLOODWAIT>> /\ Frame

\* Lines 241-244: the page is used up; follow the cursor or stop.
IterAdvance(p) ==
    /\ Running /\ pc[p] = "c_iter" /\ cy[p].gifts = <<>>
    /\ IF IterContinues(cy[p].next_offset)
       THEN /\ cy' = [cy EXCEPT ![p].offset = cy[p].next_offset,
                                ![p].requests = @ + 1]
            /\ pc' = [pc EXCEPT ![p] = "c_page"]
       ELSE /\ cy' = [cy EXCEPT ![p].offset = cy[p].next_offset]
            /\ pc' = [pc EXCEPT ![p] = "c_endpeer"]
    /\ UNCHANGED owed /\ Inside /\ Frame

\* Lines 418-419: the generator is exhausted, on to the next peer.
EndPeer(p) ==
    /\ Running /\ pc[p] = "c_endpeer"
    /\ cy' = [cy EXCEPT ![p].pi = @ + 1]
    /\ pc' = [pc EXCEPT ![p] = "c_peer"]
    /\ UNCHANGED owed /\ Inside /\ Frame

\* Mutant: a rejected prepaid call ends the item.
PrepaidOutcomeFatal(c, o, first) ==
    IF o = "ok" THEN PrepaidOk
    ELSE IF o = "type" /\ first THEN Call("c_prepaid2", <<>>)
    ELSE Raised(<<>>)

\* _upgrade_prepaid, lines 279-288, inside the try of line 335: response
\* to UpgradeStarGiftRequest; `first` is the call that carries
\* keep_original_details.
PrepaidOutcome(c, o, first) ==
    IF o = "ok" THEN PrepaidOk
    ELSE IF o = "type" /\ first THEN Call("c_prepaid2", <<>>)
    ELSE IF IsRPCError(o)
    THEN PaidPath(c.saved.upgrade_stars, c.balance, DRY_RUN, <<>>)
    ELSE Raised(<<>>)

PrepaidResp1(p) ==
    /\ Running /\ pc[p] = "c_prepaid1"
    /\ \E o \in Outcomes, w \in 1..MaxWait :
        /\ owed' = Signalled(o, w)
        /\ Apply(p, cy[p], PrepaidOutcome(cy[p], o, TRUE))
    /\ UNCHANGED <<SCAN_LOCK, MET_CHECKS, MET_FLOODWAIT>> /\ Frame

PrepaidResp2(p) ==
    /\ Running /\ pc[p] = "c_prepaid2"
    /\ \E o \in Outcomes \ {"type"}, w \in 1..MaxWait :
        /\ owed' = Signalled(o, w)
        /\ Apply(p, cy[p], PrepaidOutcome(cy[p], o, FALSE))
    /\ UNCHANGED <<SCAN_LOCK, MET_CHECKS, MET_FLOODWAIT>> /\ Frame

\* _upgrade_paid, lines 298-303, inside the try of line 356: response to
\* GetPaymentFormRequest.
FormOutcome(o, first) ==
    IF o = "ok" THEN Call("c_send", <<>>)
    ELSE IF o = "type" /\ first THEN Call("c_form2", <<>>)
    ELSE IF IsRPCError(o) THEN PaidError
    ELSE Raised(<<>>)

FormResp1(p) ==
    /\ Running /\ pc[p] = "c_form1"
    /\ \E o \in Outcomes, w \in 1..MaxWait :
        /\ owed' = Signalled(o, w)
        /\ Apply(p, cy[p], FormOutcome(o, TRUE))
    /\ UNCHANGED <<SCAN_LOCK, MET_CHECKS, MET_FLOODWAIT>> /\ Frame

FormResp2(p) ==
    /\ Running /\ pc[p] = "c_form2"
    /\ \E o \in Outcomes \ {"type"}, w \in 1..MaxWait :
        /\ owed' = Signalled(o, w)
        /\ Apply(p, cy[p], FormOutcome(o, FALSE))
    /\ UNCHANGED <<SCAN_LOCK, MET_CHECKS, MET_FLOODWAIT>> /\ Frame

\* Lines 305-308 and 358-365: response to SendStarsFormRequest.
SendOutcome(c, o) ==
    IF o = "ok" THEN PaidOk(c.saved.upgrade_stars)
    ELSE IF IsRPCError(o) THEN PaidError
    ELSE Raised(<<>>)

SendResp(p) ==
    /\ Running /\ pc[p] = "c_send"
    /\ \E o \in Outcomes \ {"type"}, w \in 1..MaxWait :
        /\ owed' = Signalled(o, w)
        /\ Apply(p, cy[p], SendOutcome(cy[p], o))
    /\ UNCHANGED <<SCAN_LOCK, MET_CHECKS, MET_FLOODWAIT>> /\ Frame

\* report, lines 183-187: response to send_message; a failure is logged.
\* The cycle returns and `async with` releases the lock.
ReportResp(p) ==
    /\ Running /\ pc[p] = "c_report"
    /\ \E o \in Outcomes \ {"type"}, w \in 1..MaxWait :
        /\ owed' = Signalled(o, w)
        /\ EndCycle(p, "ok", 0)
    /\ UNCHANGED <<MET_CHECKS, State, succeeded, disk>> /\ Frame

\* ------------------------------------------------------------------- Next
Next ==
    \/ MainExit
    \/ MainAcquire
    \/ MainFloodSleep
    \/ MainDelay
    \/ Signal
    \/ \E t \in Triggers : FastTrigger(t)
    \/ \E p \in Procs : LockGranted(p)
    \/ \E p \in Procs : BalanceResp1(p)
    \/ \E p \in Procs : BalanceResp2(p)
    \/ \E p \in Procs : PeerStart(p)
    \/ \E p \in Procs : ResolveResp(p)
    \/ \E p \in Procs : PageResp(p)
    \/ \E p \in Procs : Item(p)
    \/ \E p \in Procs : IterAdvance(p)
    \/ \E p \in Procs : EndPeer(p)
    \/ \E p \in Procs : PrepaidResp1(p)
    \/ \E p \in Procs : PrepaidResp2(p)
    \/ \E p \in Procs : FormResp1(p)
    \/ \E p \in Procs : FormResp2(p)
    \/ \E p \in Procs : SendResp(p)
    \/ \E p \in Procs : ReportResp(p)

Spec == Init /\ [][Next]_vars

\* The program configured with FAST_ON_NEW_MSG = 0 (lines 35 and 489) in a
\* run that receives no signal: no handler is registered and main() alone
\* runs the cycles, one after the other.
Cycle(p) ==
    \/ BalanceResp1(p)
    \/ BalanceResp2(p)
    \/ PeerStart(p)
    \/ ResolveResp(p)
    \/ PageResp(p)
    \/ Item(p)
    \/ IterAdvance(p)
    \/ EndPeer(p)
    \/ PrepaidResp1(p)
    \/ PrepaidResp2(p)
    \/ FormResp1(p)
    \/ FormResp2(p)
    \/ SendResp(p)
    \/ ReportResp(p)

NextPeriodic ==
    \/ MainAcquire
    \/ MainFloodSleep
    \/ MainDelay
    \/ Cycle(Main)

SpecPeriodic == Init /\ [][NextPeriodic]_vars

\* The program configured with DRY_RUN = 1 (line 38) in a run that receives
\* no signal: try_upgrade_one returns at line 334 or 354 before any
\* executor call, so no response to one is ever awaited.
NextDry ==
    \/ MainAcquireWithin(MaxDryCycles)
    \/ MainFloodSleep
    \/ MainDelay
    \/ \E t \in Triggers : FastTriggerWithin(t, MaxDryCycles)
    \/ \E p \in Procs : LockGrantedWithin(p, MaxDryCycles)
    \/ \E p \in Procs : BalanceResp1(p)
    \/ \E p \in Procs : BalanceResp2(p)
    \/ \E p \in Procs : PeerStart(p)
    \/ \E p \in Procs : ResolveResp(p)
    \/ \E p \in Procs : PageResp(p)
    \/ \E p \in Procs : Item(p)
    \/ \E p \in Procs : IterAdvance(p)
    \/ \E p \in Procs : EndPeer(p)
    \/ \E p \in Procs : ReportResp(p)

InitDry == Init /\ DRY_RUN

SpecDry == InitDry /\ [][NextDry]_vars

\* ------------------------------------------------- audit log write faults
\* append_audit (lines 118-121) opens and writes audit.jsonl with no
\* try/except, and no caller wraps it: an OSError of the write leaves
\* try_upgrade_one (it is no RPCError) and reaches line 414.
AuditEvents == {"consider", "dry_upgrade_prepaid", "dry_upgrade_paid",
                "upgrade_prepaid_ok", "upgrade_paid_ok", "upgrade_paid_err"}

AuditFailed(e) == "audit_exc:" \o e

AuditFailures == {AuditFailed(e) : e \in AuditEvents}

\* The stretch of code that would have done d, when the write of its k-th
\* audit event raises: the events before it are in the log, nothing after
\* the write runs (in every branch mark_upgraded follows the write).
AuditFault(d, k) ==
    Ret(FALSE, AuditFailed(d.ev[k]), 0, FALSE, SubSeq(d.ev, 1, k - 1))

\* What the response o does to try_upgrade_one suspended at pc[p].
ExecOutcome(p, o) ==
    CASE pc[p] = "c_prepaid1" -> PrepaidOutcome(cy[p], o, TRUE)
      [] pc[p] = "c_prepaid2" -> PrepaidOutcome(cy[p], o, FALSE)
      [] pc[p] = "c_form1" -> FormOutcome(o, TRUE)
      [] pc[p] = "c_form2" -> FormOutcome(o, FALSE)
      [] pc[p] = "c_send" -> SendOutcome(cy[p], o)

ExecResponses(p) ==
    IF pc[p] \in {"c_prepaid1", "c_form1"} THEN Outcomes
    ELSE Outcomes \ {"type"}

\* Item, with the write of one of its audit events failing.
ItemAuditFails(p) ==
    /\ Running /\ pc[p] = "c_iter" /\ cy[p].gifts # <<>>
    /\ \E k \in GiftKinds :
        LET saved == SavedGift(Peer(p), Head(cy[p].gifts), k.has_id, k.need,
                               k.prepaid, k.can_up)
            c == [cy[p] EXCEPT !.saved = saved,
                               !.gifts = Tail(@),
                               !.yielded = Append(@, saved.id),
                               !.audit = <<>>]
            d == TryUpgradeEntry(saved, Peer(p), c.balance, DRY_RUN)
        IN  \E n \in 1..Len(d.ev) : Apply(p, c, AuditFault(d, n))
    /\ UNCHANGED <<owed, SCAN_LOCK, MET_CHECKS, MET_FLOODWAIT>> /\ Frame

\* The response to an executor call, with the write of the audit event
\* that follows it (lines 338, 359, 364) failing.
ExecAuditFails(p) ==
    /\ Running /\ pc[p] \in ItemAwait
    /\ \E o \in ExecResponses(p), w \in 1..MaxWait :
        LET d == ExecOutcome(p, o)
        IN  /\ owed' = Signalled(o, w)
            /\ \E n \in 1..Len(d.ev) : Apply(p, cy[p], AuditFault(d, n))
    /\ UNCHANGED <<SCAN_LOCK, MET_CHECKS, MET_FLOODWAIT>> /\ Frame

NextAudit ==
    \/ MainAcquire
    \/ MainFloodSleep
    \/ MainDelay
    \/ Cycle(Main)
    \/ ItemAuditFails(Main)
    \/ ExecAuditFails(Main)

\* The periodic program on a disk where a write of audit.jsonl can fail.
SpecAudit == Init /\ [][NextAudit]_vars

\* ------------------------------------------------------- process restart
\* The process is killed at any point and started again: the module level
\* code runs anew, STATE = load_state() (line 106), and main() starts
\* over.  The files stay as they are.
Restart ==
    /\ State' = load_state(disk)
    /\ SCAN_LOCK' = [locked |-> FALSE, waiters |-> <<>>, woken |-> {}]
    /\ STOP' = FALSE
    /\ pc' = [p \in Procs |-> IF p = Main THEN "m_start" ELSE "t_idle"]
    /\ cy' = [p \in Procs |-> InitLocals]
    /\ MET_CHECKS' = 0
    /\ MET_FLOODWAIT' = 0
    /\ owed' = 0
    /\ UNCHANGED <<DRY_RUN, disk, succeeded>>

NextStore ==
    \/ MainAcquire
    \/ MainFloodSleep
    \/ MainDelay
    \/ Cycle(Main)
    \/ Restart

\* The periodic program, killed and restarted any number of times.
SpecStore == Init /\ [][NextStore]_vars

\* ------------------------------------- TL layer without the details flag
\* _upgrade_paid builds InputInvoiceStarGiftUpgrade(stargift=...,
\* keep_original_details=...) at lines 294-297, before the try of line 298.
\* On a layer whose constructor does not know the parameter the TypeError
\* is raised there: no clause of _upgrade_paid catches it, it is no
\* RPCError for line 362, and it reaches line 414.  d is what the code
\* would have done had the invoice been built.
InvoiceRejected(d) == Ret(FALSE, "invoice_exc", 0, FALSE, d.ev)

\* Item, entering the paid path on such a layer.
ItemInvoiceFails(p) ==
    /\ Running /\ pc[p] = "c_iter" /\ cy[p].gifts # <<>>
    /\ \E k \in GiftKinds :
        LET saved == SavedGift(Peer(p), Head(cy[p].gifts), k.has_id, k.need,
                               k.prepaid, k.can_up)
            c == [cy[p] EXCEPT !.saved = saved,
                               !.gifts = Tail(@),
                               !.yielded = Append(@, saved.id),
                               !.audit = <<>>]
            d == TryUpgradeEntry(saved, Peer(p), c.balance, DRY_RUN)
        IN  d.next = "c_form1" /\ Apply(p, c, InvoiceRejected(d))
    /\ UNCHANGED <<owed, SCAN_LOCK, MET_CHECKS, MET_FLOODWAIT>> /\ Frame

\* The response to a prepaid call, falling through to the paid path on such
\* a layer.
ExecInvoiceFails(p) ==
    /\ Running /\ pc[p] \in {"c_prepaid1", "c_prepaid2"}
    /\ \E o \in ExecResponses(p), w \in 1..MaxWait :
        LET d == ExecOutcome(p, o)
        IN  /\ d.next = "c_form1"
            /\ owed' = Signalled(o, w)
            /\ Apply(p, cy[p], InvoiceRejected(d))
    /\ UNCHANGED <<SCAN_LOCK, MET_CHECKS, MET_FLOODWAIT>> /\ Frame

NextLayer ==
    \/ MainAcquire
    \/ MainFloodSleep
    \/ MainDelay
    \/ Cycle(Main)
    \/ ItemInvoiceFails(Main)
    \/ ExecInvoiceFails(Main)

\* The periodic program on any TL layer, with or without the parameter.
SpecLayer == Init /\ [][NextLayer]_vars

TypeOK ==
    /\ DRY_RUN \in BOOLEAN
    /\ STOP \in BOOLEAN
    /\ SCAN_LOCK.locked \in BOOLEAN
    /\ SCAN_LOCK.woken \subseteq Procs
    /\ \A p \in Procs : pc[p] \in CycleStates \cup MainStates \cup TriggerStates
    /\ MET_CHECKS \in 0..Max(MaxCycles, MaxDryCycles)
    /\ owed \in 0..MaxWait
    /\ disk.db.exists \in BOOLEAN

\* ================================================================ claims
SuccessMsgs == {"dry_prepaid", "dry_paid", "prepaid_ok", "paid_ok"}

KeyOf(c) == state_key(PEERS[c.pi], _gift_keys(c.saved))

\* This step yields the next gift to try_upgrade_one.
ItemStep(p) ==
    /\ pc[p] = "c_iter"
    /\ Len(cy'[p].yielded) = Len(cy[p].yielded) + 1

\* This step ends an invocation of try_upgrade_one; cy'[p].msg is its outcome.
Decided(p) ==
    /\ pc'[p] = "c_iter"
    /\ ItemStep(p) \/ pc[p] \in ItemAwait

\* This step stays inside one cycle of task p, after the balance was fetched.
SameCycle(p) ==
    /\ pc[p] \in CycleStates \ {"c_balance1", "c_balance2"}
    /\ pc'[p] \in CycleStates

\* This step enters the paid path (line 345) of try_upgrade_one: from the
\* entry of the invocation or after a rejected prepaid call.
PaidReached(p) ==
    /\ ItemStep(p) \/ pc[p] \in {"c_prepaid1", "c_prepaid2"}
    /\ \/ pc'[p] = "c_form1"
       \/ /\ pc'[p] = "c_iter"
          /\ cy'[p].msg \in {"no_balance", "dry_paid", "uncertain"}

\* C1: at most one scan cycle is executing at any time, whatever the
\* interleaving of the periodic loop and the reactive triggers.
C1_SingleFlight == Cardinality({p \in Procs : InCycle(p)}) <= 1

\* A trigger's cycle is in flight while main() is queued on the lock.
C1_Witness == \E t \in Triggers : InCycle(t) /\ pc[Main] = "m_waitlock"

\* C2: once try_upgrade_one has returned success for a pair (source, key),
\* every later invocation for that pair returns skip:done at once, and no
\* mutating remote call is ever in flight for a pair that has succeeded.
C2_Idempotent ==
    [][\A p \in Procs :
          /\ (ItemStep(p) /\ HasKey(cy'[p].saved)
                /\ KeyOf(cy'[p]) \in succeeded)
             => (pc'[p] = "c_iter" /\ cy'[p].msg = "skip_done")
          /\ pc'[p] \in MutatingAwait => KeyOf(cy'[p]) \notin succeeded']_vars

\* A gift that succeeded earlier has been met again and skipped.
C2_Witness ==
    \E p \in Procs :
        /\ pc[p] = "c_iter" /\ cy[p].msg = "skip_done"
        /\ KeyOf(cy[p]) \in succeeded

\* C3: a dedup record is written exactly by the invocations of
\* try_upgrade_one that end in success: a step changes the dedup map only by
\* adding the key of an invocation that ends in success in that step, and
\* every invocation that ends in success adds the record of its key.
C3_RecordIffSuccess ==
    [][/\ State' # State =>
            \E p \in Procs : /\ Decided(p)
                             /\ cy'[p].msg \in SuccessMsgs
                             /\ State' = State \cup {KeyOf(cy'[p])}
       /\ \A p \in Procs :
            (Decided(p) /\ cy'[p].msg \in SuccessMsgs)
            => (KeyOf(cy'[p]) \in State' /\ KeyOf(cy'[p]) \notin State)]_vars

\* A paid upgrade was rejected and left no record, next to records of
\* earlier successes.
C3_Witness ==
    \E p \in Procs :
        /\ pc[p] = "c_iter" /\ cy[p].msg = "paid_err"
        /\ KeyOf(cy[p]) \notin State
        /\ State # {}

\* C4: within one cycle the running balance never increases and never
\* becomes negative, and whenever the paid path is reached with a cost above
\* the running balance the invocation returns no_balance in that step: no
\* remote call is issued, no record is written, the balance is unchanged.
C4_BalanceMonotone ==
    [][\A p \in Procs :
          SameCycle(p) =>
            /\ cy'[p].balance <= cy[p].balance
            /\ cy'[p].balance >= 0
            /\ (PaidReached(p) /\ cy'[p].saved.upgrade_stars > cy[p].balance)
               => /\ pc'[p] = "c_iter"
                  /\ cy'[p].msg = "no_balance"
                  /\ State' = State
                  /\ cy'[p].balance = cy[p].balance]_vars

\* After a paid upgrade lowered the balance, a dearer gift is refused.
C4_Witness ==
    \E p \in Procs :
        /\ pc[p] = "c_iter" /\ cy[p].msg = "no_balance"
        /\ cy[p].saved.upgrade_stars > cy[p].balance
        /\ 0 < cy[p].balance /\ cy[p].balance < cy[p].fetched

\* C5: outside dry-run, at every point of a cycle the running balance plus
\* the total spent equals the balance fetched at its start; a successful
\* paid upgrade of cost c moves exactly c from the one to the other and
\* nothing else changes either.
C5_NoOverspend ==
    [][~DRY_RUN =>
         \A p \in Procs :
            /\ pc'[p] \in CycleStates \ {"c_balance1", "c_balance2"}
               => /\ cy'[p].balance + cy'[p].total_spent = cy'[p].fetched
                  /\ cy'[p].total_spent <= cy'[p].fetched
            /\ SameCycle(p)
               => IF Decided(p) /\ cy'[p].msg = "paid_ok"
                  THEN /\ cy'[p].total_spent
                            = cy[p].total_spent + cy'[p].saved.upgrade_stars
                       /\ cy'[p].balance
                            = cy[p].balance - cy'[p].saved.upgrade_stars
                  ELSE /\ cy'[p].total_spent = cy[p].total_spent
                       /\ cy'[p].balance = cy[p].balance]_vars

\* A paid upgrade succeeded and part of the fetched balance is left.
C5_Witness ==
    /\ ~DRY_RUN
    /\ \E p \in Procs :
        /\ pc[p] = "c_iter" /\ cy[p].msg = "paid_ok"
        /\ cy[p].total_spent > 0 /\ cy[p].balance > 0

\* C6: under dry-run no prepaid-upgrade, payment-form or payment-submission
\* call is ever in flight, and every gift that has a key, is not yet marked
\* done and is eligible (prepaid token, or cost > 0 within the running
\* balance) ends at once in a simulated success and is marked done.
C6_DryRun ==
    [][DRY_RUN =>
         \A p \in Procs :
            /\ pc'[p] \notin MutatingAwait
            /\ (/\ ItemStep(p)
                /\ HasKey(cy'[p].saved)
                /\ KeyOf(cy'[p]) \notin State
                /\ \/ cy'[p].saved.prepaid_upgrade_hash
                   \/ /\ cy'[p].saved.upgrade_stars > 0
                      /\ cy[p].balance >= cy'[p].saved.upgrade_stars)
               => /\ pc'[p] = "c_iter"
                  /\ cy'[p].msg \in {"dry_prepaid", "dry_paid"}
                  /\ KeyOf(cy'[p]) \in State']_vars

\* A dry-run cycle has simulated a paid upgrade and marked the gift.
C6_Witness ==
    /\ DRY_RUN
    /\ \E p \in Procs :
        /\ pc[p] = "c_iter" /\ cy[p].msg = "dry_paid"
        /\ KeyOf(cy[p]) \in State

Ids(n) == [i \in 1..n |-> i]

Pages(n) == IF n = 0 THEN 1 ELSE (n + PAGE_LIMIT - 1) \div PAGE_LIMIT

\* C7: iter_saved_gifts starts from the empty offset, yields the gifts of the
\* catalog once each in the order served (what it has yielded plus what is
\* left of the current page is always a prefix 1..k of the catalog), never
\* requests more pages than the catalog has, and when it ends it has yielded
\* all N gifts with the last page's cursor empty.
C7_Pagination ==
    \A p \in Procs :
        pc[p] \in {"c_page", "c_iter", "c_endpeer"} \cup ItemAwait =>
            LET c == cy[p] IN
            /\ c.yielded \o c.gifts = Ids(Len(c.yielded) + Len(c.gifts))
            /\ Len(c.yielded) + Len(c.gifts) <= c.catalog
            /\ c.requests <= Pages(c.catalog)
            /\ c.requests = 1 => c.offset = <<>>
            /\ pc[p] = "c_endpeer" =>
                  /\ c.yielded = Ids(c.catalog)
                  /\ c.requests = Pages(c.catalog)
                  /\ c.offset = <<>>

\* An iteration over a catalog of several pages has ended.
C7_Witness ==
    \E p \in Procs :
        /\ pc[p] = "c_endpeer"
        /\ cy[p].catalog > PAGE_LIMIT
        /\ cy[p].requests >= 2
        /\ cy[p].yielded = Ids(cy[p].catalog)

\* C8: whenever a remote call of a scan cycle raises a rate-limit error with
\* wait W, no remote call is in flight again until W has been slept, and
\* the rate-limit-seconds counter grows by exactly W for that error.
C8_RateLimitBackoff ==
    [][/\ owed' > 0 => \A q \in Procs : pc'[q] \notin CycleAwait
       /\ \A p \in Procs :
            (pc[p] \in CycleAwait /\ pc'[p] # pc[p] /\ owed' > 0)
            => MET_FLOODWAIT' = MET_FLOODWAIT + owed']_vars

\* C9: a reactive trigger that fires while a scan cycle is in flight is a
\* no-op: the handler returns, no cycle starts, and nothing else changes.
C9_TriggerDropped ==
    [][\A t \in Triggers :
          (Free(t) /\ pc'[t] # pc[t] /\ \E q \in Procs : InCycle(q))
          => /\ pc'[t] = "t_done"
             /\ \A q \in Procs \ {t} : pc'[q] = pc[q]
             /\ UNCHANGED <<cy, MET_CHECKS, SCAN_LOCK, State>>]_vars

\* A trigger has fired during a cycle and returned.
C9_Witness ==
    \E t \in Triggers : pc[t] = "t_done" /\ \E q \in Procs : InCycle(q)

\* C10: a reactive trigger is never suspended waiting for the scan lock.
C10_TriggerNeverWaits == \A t \in Triggers : pc[t] # "t_waitlock"

\* This step ends the cycle task p was running.
CycleEnds(p) == InCycle(p) /\ pc'[p] \notin CycleStates

\* C11: no exception leaves scan_and_upgrade_cycle: whatever the remote
\* calls raise, every cycle ends by returning from its summary report.
C11_ErrorsAbsorbed ==
    [][\A p \in Procs : CycleEnds(p) => pc[p] = "c_report"]_vars

\* C12: a failed write of an audit event never aborts the decision: no
\* invocation of try_upgrade_one ends by the exception of append_audit, so
\* a gift whose remote upgrade succeeded is recorded whatever the log does.
C12_AuditFailureSwallowed ==
    \A p \in Procs : pc[p] = "c_iter" => cy[p].msg \notin AuditFailures

\* C13: a record for which mark_upgraded has returned survives a restart:
\* at every moment reloading the state file finds every pair that has
\* succeeded, the earlier ones included, and already_upgraded is true for
\* each of them, also after any number of restarts.
C13_RoundTrip ==
    /\ succeeded \subseteq load_state(disk)
    /\ \A k \in succeeded : already_upgraded(k[1], k[2])

\* The process has just restarted and finds two records written before.
C13_Witness ==
    /\ pc[Main] = "m_start" /\ MET_CHECKS = 0
    /\ Cardinality(State) >= 2
    /\ State = succeeded

\* C14: once the signal has set STOP, main() starts no new cycle, issues no
\* further remote call (it waits at most for the one in flight) and is never
\* in a sleep that STOP does not end.
C14_Shutdown ==
    [][STOP =>
         /\ InCycle(Main)' => InCycle(Main)
         /\ pc'[Main] \in CycleAwait => pc'[Main] = pc[Main]
         /\ pc'[Main] # "m_floodsleep"]_vars

PrepaidAwait == {"c_prepaid1", "c_prepaid2"}

\* C15: outside dry-run every keyed gift with a prepaid token and no dedup
\* record has _upgrade_prepaid invoked when it is yielded, and only then
\* (once per invocation); a successful response of the prepaid call makes
\* the invocation return success with zero spent and the record written,
\* and a prepaid success comes straight from the prepaid call (no form or
\* send call for the gift) and leaves balance and total spent unchanged.
C15_PrepaidOnce ==
    [][~DRY_RUN =>
         \A p \in Procs :
            /\ (/\ ItemStep(p)
                /\ HasKey(cy'[p].saved)
                /\ cy'[p].saved.prepaid_upgrade_hash
                /\ KeyOf(cy'[p]) \notin State)
               => pc'[p] = "c_prepaid1"
            /\ (pc'[p] = "c_prepaid1" /\ pc[p] # "c_prepaid1") => ItemStep(p)
            /\ (pc'[p] = "c_prepaid2" /\ pc[p] # "c_prepaid2")
               => pc[p] = "c_prepaid1"
            /\ pc[p] \in PrepaidAwait
               => LET d == ExecOutcome(p, "ok")
                  IN  /\ d.next = "c_iter" /\ d.ok /\ d.mark
                      /\ d.msg = "prepaid_ok" /\ d.spent = 0
            /\ (Decided(p) /\ cy'[p].msg = "prepaid_ok")
               => /\ pc[p] \in PrepaidAwait
                  /\ KeyOf(cy'[p]) \in State'
                  /\ cy'[p].balance = cy[p].balance
                  /\ cy'[p].total_spent = cy[p].total_spent]_vars

\* A prepaid upgrade succeeded in a cycle that holds a balance.
C15_Witness ==
    /\ ~DRY_RUN
    /\ \E p \in Procs :
        /\ pc[p] = "c_iter" /\ cy[p].msg = "prepaid_ok"
        /\ cy[p].balance > 0 /\ cy[p].balance = cy[p].fetched
        /\ KeyOf(cy[p]) \in State

\* The response that ends this step of task p is a FloodWaitError raised by
\* an executor call (prepaid upgrade, payment form or payment submission).
ExecFlood(p) == pc[p] \in ItemAwait /\ pc'[p] # pc[p] /\ owed' > 0

\* C16: a rate-limit error of an executor call aborts the item and reaches
\* the cycle's rate-limit handler (lines 407-410, which counts the wait):
\* no payment call follows for the gift and the item does not end as a
\* rejection (paid error, no_balance or uncertain).
C16_ItemFloodAborts ==
    [][\A p \in Procs :
          ExecFlood(p) =>
            /\ pc'[p] \notin {"c_form1", "c_form2", "c_send"}
            /\ cy'[p].msg \notin {"paid_err", "no_balance", "uncertain"}
            /\ MET_FLOODWAIT' = MET_FLOODWAIT + owed']_vars

PaidAwait == {"c_form1", "c_form2", "c_send"}

\* C17: outside dry-run, when the service rejects the prepaid call (an
\* RPCError) the gift is not marked and the paid path runs in the same
\* invocation: payment form if cost > 0 and balance >= cost, no_balance if
\* cost > balance, uncertain if cost = 0.  When the service rejects a
\* payment call the invocation ends in paid_err with the gift unmarked.
\* Neither path is entered twice in one invocation: the prepaid call is
\* issued only when the gift is yielded and the payment form only then or
\* after the prepaid call.
C17_FallThrough ==
    [][~DRY_RUN =>
         \A p \in Procs :
            /\ pc[p] \in PrepaidAwait
               => LET d == ExecOutcome(p, "rpc")
                      need == cy[p].saved.upgrade_stars
                      bal == cy[p].balance
                  IN  /\ ~d.mark /\ ~d.ok
                      /\ (need > 0 /\ bal >= need) => d.next = "c_form1"
                      /\ need > bal
                         => (d.next = "c_iter" /\ d.msg = "no_balance")
                      /\ need = 0
                         => (d.next = "c_iter" /\ d.msg = "uncertain")
            /\ pc[p] \in PaidAwait
               => LET d == ExecOutcome(p, "rpc")
                  IN  /\ d.next = "c_iter" /\ d.msg = "paid_err"
                      /\ ~d.mark /\ ~d.ok /\ d.spent = 0
            /\ (Decided(p) /\ cy'[p].msg = "paid_err")
               => (State' = State /\ KeyOf(cy'[p]) \notin State')
            /\ (pc'[p] = "c_prepaid1" /\ pc[p] # "c_prepaid1") => ItemStep(p)
            /\ (pc'[p] = "c_form1" /\ pc[p] # "c_form1")
               => (ItemStep(p) \/ pc[p] \in PrepaidAwait)]_vars

\* A gift with a prepaid token ended in a paid error and is unmarked: both
\* its prepaid call and its paid attempt were rejected.
C17_Witness ==
    \E p \in Procs :
        /\ pc[p] = "c_iter" /\ cy[p].msg = "paid_err"
        /\ cy[p].saved.prepaid_upgrade_hash
        /\ KeyOf(cy[p]) \notin State

\* The terminal outcomes of try_upgrade_one.
TerminalMsgs == {"skip_done", "skip_not_upgradable", "no_balance", "uncertain",
                 "dry_prepaid", "dry_paid", "prepaid_ok", "paid_ok", "paid_err"}

\* The audit events an invocation appended after its `consider` event.
BranchEvents(c) == SelectSeq(c.audit, LAMBDA e : e # "consider")

\* C18: every decision branch emits exactly one audit event: an invocation
\* that ended in a terminal outcome has appended its `consider` event and
\* exactly one event for the branch that decided the outcome.
C18_OneEventPerBranch ==
    \A p \in Procs :
        (pc[p] = "c_iter" /\ cy[p].msg \in TerminalMsgs)
        => /\ Len(cy[p].audit) >= 1
           /\ cy[p].audit[1] = "consider"
           /\ Len(BranchEvents(cy[p])) = 1

\* C19: the prepaid call and the payment-form request are retried, once,
\* exactly when the first attempt is rejected for the unrecognized
\* parameter (a TypeError); any other outcome of the first attempt and any
\* failure of the retry is followed by no further attempt; the submission
\* is issued only after a payment form was obtained; and no invocation ends
\* by the TypeError of the parameter without a retry.
C19_SignatureFallback ==
    [][\A p \in Procs :
          /\ pc[p] = "c_prepaid1"
             => \A o \in Outcomes :
                   (ExecOutcome(p, o).next = "c_prepaid2") <=> (o = "type")
          /\ pc[p] = "c_form1"
             => \A o \in Outcomes :
                   (ExecOutcome(p, o).next = "c_form2") <=> (o = "type")
          /\ (pc'[p] = "c_prepaid2" /\ pc[p] # "c_prepaid2")
             => pc[p] = "c_prepaid1"
          /\ (pc'[p] = "c_form2" /\ pc[p] # "c_form2") => pc[p] = "c_form1"
          /\ (pc[p] = "c_prepaid2" /\ pc'[p] # pc[p])
             => pc'[p] \notin {"c_prepaid1"}
          /\ (pc[p] = "c_form2" /\ pc'[p] # pc[p])
             => pc'[p] \in {"c_send", "c_iter"}
          /\ (pc'[p] = "c_send" /\ pc[p] # "c_send")
             => pc[p] \in {"c_form1", "c_form2"}
          /\ (pc[p] = "c_send" /\ pc'[p] # pc[p]) => pc'[p] = "c_iter"
          /\ pc'[p] = "c_iter" => cy'[p].msg # "invoice_exc"]_vars

\* The remote errors of a balance query other than the parameter-type
\* rejection.
BalanceFailures == {"rpc", "flood"}

\* C20: when a balance query (the first call or the fallback made after a
\* parameter-type rejection) fails with a remote error, the cycle goes on
\* to its peers with running balance 0; a rate-limited balance response is
\* such a step; in a cycle that started from balance 0 no payment-form and
\* no payment-submission call is issued, while a gift with a prepaid token
\* that is not yet recorded still gets its prepaid upgrade call.
C20_BalanceFailSafe ==
    [][\A p \in Procs :
          /\ pc[p] \in {"c_balance1", "c_balance2"}
             => \A o \in BalanceFailures, b \in 0..MaxBalance :
                   BalanceOutcome(o, b, pc[p] = "c_balance1") =
                       [next |-> "c_peer", balance |-> 0]
          /\ (pc[p] \in {"c_balance1", "c_balance2"} /\ pc'[p] # pc[p]
                /\ owed' > 0)
             => /\ pc'[p] = "c_peer"
                /\ cy'[p].balance = 0
                /\ SCAN_LOCK' = SCAN_LOCK
          /\ (pc[p] \in CycleStates \ {"c_balance1", "c_balance2"}
                /\ cy[p].fetched = 0)
             => /\ cy[p].balance = 0
                /\ pc'[p] \notin {"c_form1", "c_form2", "c_send"}
          /\ (ItemStep(p) /\ cy[p].fetched = 0 /\ ~DRY_RUN
                /\ HasKey(cy'[p].saved)
                /\ cy'[p].saved.prepaid_upgrade_hash
                /\ ~already_upgraded(Peer(p), _gift_keys(cy'[p].saved)))
             => pc'[p] = "c_prepaid1"]_vars

\* A prepaid upgrade call is pending, for a gift that costs stars, in a
\* cycle whose running balance is the 0 a failed balance query leaves.
C20_Witness ==
    \E p \in Procs :
        /\ pc[p] = "c_prepaid1"
        /\ cy[p].fetched = 0 /\ cy[p].balance = 0
        /\ cy[p].saved.upgrade_stars > 0

\* C21: the scan lock is held only while a cycle is executing; every step
\* that ends a cycle, normally or by an exception, leaves the lock released;
\* and when a cycle ends while the periodic loop is queued on the lock, the
\* periodic loop is the task the release wakes, so the next cycle is its own.
C21_LockLifetime ==
    [][/\ SCAN_LOCK'.locked => \E q \in Procs : pc'[q] \in CycleStates
       /\ \A p \in Procs :
            CycleEnds(p)
            => /\ ~SCAN_LOCK'.locked
               /\ pc[Main] = "m_waitlock" => Main \in SCAN_LOCK'.woken]_vars

====
